---- MODULE Spec2Model ----
(***************************************************************************)
(* Model of the global hotkey detection engine of Shortcut_tips            *)
(* (src/hotkey_listener.py): the HotkeyListener object, its hook thread,   *)
(* the OS hook table and the key events the OS delivers through the hook.  *)
(***************************************************************************)
EXTENDS Integers, Sequences, FiniteSets, TLC

(***************************************************************************)
(* Native virtual-key codes (win32con) used by the listener.               *)
(***************************************************************************)
VK_LSHIFT == 160
VK_RSHIFT == 161
VK_LCONTROL == 162
VK_RCONTROL == 163
VK_LMENU == 164
VK_RMENU == 165
VK_F12 == 123

\* Keyboard messages a low-level keyboard hook receives in wParam (win32con).
WM_KEYDOWN == 256
WM_KEYUP == 257
WM_SYSKEYDOWN == 260
WM_SYSKEYUP == 261
\* The one-character name of the grave accent key.
Backtick == SubSeq("`'", 1, 1)

\* The key_mapping literal of _is_hotkey_pressed.
key_mapping ==
    ( "f1" :> 112 @@ "f2" :> 113 @@ "f3" :> 114 @@ "f4" :> 115 @@
      "f5" :> 116 @@ "f6" :> 117 @@ "f7" :> 118 @@ "f8" :> 119 @@
      "f9" :> 120 @@ "f10" :> 121 @@ "f11" :> 122 @@ "f12" :> 123 @@
      "0" :> 48 @@ "1" :> 49 @@ "2" :> 50 @@ "3" :> 51 @@ "4" :> 52 @@
      "5" :> 53 @@ "6" :> 54 @@ "7" :> 55 @@ "8" :> 56 @@ "9" :> 57 @@
      "num0" :> 96 @@ "num1" :> 97 @@ "num2" :> 98 @@ "num3" :> 99 @@
      "num4" :> 100 @@ "num5" :> 101 @@ "num6" :> 102 @@ "num7" :> 103 @@
      "num8" :> 104 @@ "num9" :> 105 @@ "up" :> 38 @@ "down" :> 40 @@
      "left" :> 37 @@ "right" :> 39 @@ "space" :> 32 @@ "tab" :> 9 @@
      "enter" :> 13 @@ "esc" :> 27 @@ "backspace" :> 8 @@ "delete" :> 46 @@
      "home" :> 36 @@ "end" :> 35 @@ "pageup" :> 33 @@ "pagedown" :> 34 @@
      "insert" :> 45 @@ ";" :> 186 @@ "=" :> 187 @@ "," :> 188 @@
      "-" :> 189 @@ "." :> 190 @@ "/" :> 191 @@ Backtick :> 192 @@ "[" :> 219 @@
      "\\" :> 220 @@ "]" :> 221 @@ "'" :> 222 )

\* str.lower() on the key names a configuration can carry.
LowerTable ==
    ( "F1" :> "f1" @@ "F11" :> "f11" @@ "F12" :> "f12" @@ "A" :> "a" @@
      "Z" :> "z" @@ "SPACE" :> "space" @@ "Num3" :> "num3" )

Lower(s) == IF s \in DOMAIN LowerTable THEN LowerTable[s] ELSE s

\* ord(c.upper()) for the single alphabetic characters.
OrdUpper ==
    ( "a" :> 65 @@ "b" :> 66 @@ "c" :> 67 @@ "d" :> 68 @@ "e" :> 69 @@
      "f" :> 70 @@ "g" :> 71 @@ "h" :> 72 @@ "i" :> 73 @@ "j" :> 74 @@
      "k" :> 75 @@ "l" :> 76 @@ "m" :> 77 @@ "n" :> 78 @@ "o" :> 79 @@
      "p" :> 80 @@ "q" :> 81 @@ "r" :> 82 @@ "s" :> 83 @@ "t" :> 84 @@
      "u" :> 85 @@ "v" :> 86 @@ "w" :> 87 @@ "x" :> 88 @@ "y" :> 89 @@
      "z" :> 90 )

\* len(key_name) == 1 and key_name.isalpha(), on a lower-cased name.
IsSingleAlpha(s) == s \in DOMAIN OrdUpper

\* The main-key code a configuration resolves to; 0 when the name resolves
\* to nothing (neither branch of the if/elif is taken).
MainKeyCode(cfg) ==
    LET key_name == Lower(cfg.key)
    IN  IF key_name \in DOMAIN key_mapping THEN key_mapping[key_name]
        ELSE IF IsSingleAlpha(key_name) THEN OrdUpper[key_name]
        ELSE 0

\* A predicate that accepts only the left variant of a modifier.
IsHotkeyPressed_left_only(cfg, pressed) ==
    LET ctrl_pressed == IF cfg.ctrl THEN VK_LCONTROL \in pressed ELSE TRUE
        shift_pressed == IF cfg.shift THEN VK_LSHIFT \in pressed ELSE TRUE
        alt_pressed == IF cfg.alt THEN VK_LMENU \in pressed ELSE TRUE
        main_key_pressed == MainKeyCode(cfg) # 0 /\ MainKeyCode(cfg) \in pressed
    IN  ctrl_pressed /\ shift_pressed /\ alt_pressed /\ main_key_pressed

\* _is_hotkey_pressed, on a given set of pressed codes.
IsHotkeyPressed(cfg, pressed) ==
    LET ctrl_pressed == IF cfg.ctrl
                        THEN VK_LCONTROL \in pressed \/ VK_RCONTROL \in pressed
                        ELSE TRUE
        shift_pressed == IF cfg.shift
                         THEN VK_LSHIFT \in pressed \/ VK_RSHIFT \in pressed
                         ELSE TRUE
        alt_pressed == IF cfg.alt
                       THEN VK_LMENU \in pressed \/ VK_RMENU \in pressed
                       ELSE TRUE
        main_key_pressed == MainKeyCode(cfg) # 0 /\ MainKeyCode(cfg) \in pressed
    IN  ctrl_pressed /\ shift_pressed /\ alt_pressed /\ main_key_pressed

\* The key_mapping literal of _was_hotkey_key.
was_hotkey_key_mapping ==
    ( "f1" :> 112 @@ "f2" :> 113 @@ "f3" :> 114 @@ "f4" :> 115 @@
      "f5" :> 116 @@ "f6" :> 117 @@ "f7" :> 118 @@ "f8" :> 119 @@
      "f9" :> 120 @@ "f10" :> 121 @@ "f11" :> 122 @@ "f12" :> 123 @@
      "0" :> 48 @@ "1" :> 49 @@ "2" :> 50 @@ "3" :> 51 @@ "4" :> 52 @@
      "5" :> 53 @@ "6" :> 54 @@ "7" :> 55 @@ "8" :> 56 @@ "9" :> 57 @@
      "num0" :> 96 @@ "num1" :> 97 @@ "num2" :> 98 @@ "num3" :> 99 @@
      "num4" :> 100 @@ "num5" :> 101 @@ "num6" :> 102 @@ "num7" :> 103 @@
      "num8" :> 104 @@ "num9" :> 105 @@ "up" :> 38 @@ "down" :> 40 @@
      "left" :> 37 @@ "right" :> 39 @@ "space" :> 32 @@ "tab" :> 9 @@
      "enter" :> 13 @@ "esc" :> 27 @@ "backspace" :> 8 @@ "delete" :> 46 @@
      "home" :> 36 @@ "end" :> 35 @@ "pageup" :> 33 @@ "pagedown" :> 34 @@
      "insert" :> 45 @@ ";" :> 186 @@ "=" :> 187 @@ "," :> 188 @@
      "-" :> 189 @@ "." :> 190 @@ "/" :> 191 @@ Backtick :> 192 @@ "[" :> 219 @@
      "\\" :> 220 @@ "]" :> 221 @@ "'" :> 222 )

\* The key_mapping literal of _get_required_vk_codes.
required_vk_codes_mapping ==
    ( "f1" :> 112 @@ "f2" :> 113 @@ "f3" :> 114 @@ "f4" :> 115 @@
      "f5" :> 116 @@ "f6" :> 117 @@ "f7" :> 118 @@ "f8" :> 119 @@
      "f9" :> 120 @@ "f10" :> 121 @@ "f11" :> 122 @@ "f12" :> 123 @@
      "0" :> 48 @@ "1" :> 49 @@ "2" :> 50 @@ "3" :> 51 @@ "4" :> 52 @@
      "5" :> 53 @@ "6" :> 54 @@ "7" :> 55 @@ "8" :> 56 @@ "9" :> 57 @@
      "num0" :> 96 @@ "num1" :> 97 @@ "num2" :> 98 @@ "num3" :> 99 @@
      "num4" :> 100 @@ "num5" :> 101 @@ "num6" :> 102 @@ "num7" :> 103 @@
      "num8" :> 104 @@ "num9" :> 105 @@ "up" :> 38 @@ "down" :> 40 @@
      "left" :> 37 @@ "right" :> 39 @@ "space" :> 32 @@ "tab" :> 9 @@
      "enter" :> 13 @@ "esc" :> 27 @@ "backspace" :> 8 @@ "delete" :> 46 @@
      "home" :> 36 @@ "end" :> 35 @@ "pageup" :> 33 @@ "pagedown" :> 34 @@
      "insert" :> 45 @@ ";" :> 186 @@ "=" :> 187 @@ "," :> 188 @@
      "-" :> 189 @@ "." :> 190 @@ "/" :> 191 @@ Backtick :> 192 @@ "[" :> 219 @@
      "\\" :> 220 @@ "]" :> 221 @@ "'" :> 222 )

\* A _was_hotkey_key that looks the configured name up as it is written.
WasHotkeyKey_case_sensitive(cfg, vk_code) ==
    IF cfg.ctrl /\ vk_code \in {VK_LCONTROL, VK_RCONTROL} THEN TRUE
    ELSE IF cfg.shift /\ vk_code \in {VK_LSHIFT, VK_RSHIFT} THEN TRUE
    ELSE IF cfg.alt /\ vk_code \in {VK_LMENU, VK_RMENU} THEN TRUE
    ELSE LET key_name == cfg.key
         IN  IF key_name \in DOMAIN was_hotkey_key_mapping
             THEN vk_code = was_hotkey_key_mapping[key_name]
             ELSE IF IsSingleAlpha(key_name)
             THEN vk_code = OrdUpper[key_name]
             ELSE FALSE

\* _was_hotkey_key.
WasHotkeyKey(cfg, vk_code) ==
    IF cfg.ctrl /\ vk_code \in {VK_LCONTROL, VK_RCONTROL} THEN TRUE
    ELSE IF cfg.shift /\ vk_code \in {VK_LSHIFT, VK_RSHIFT} THEN TRUE
    ELSE IF cfg.alt /\ vk_code \in {VK_LMENU, VK_RMENU} THEN TRUE
    ELSE LET key_name == Lower(cfg.key)
         IN  IF key_name \in DOMAIN was_hotkey_key_mapping
             THEN vk_code = was_hotkey_key_mapping[key_name]
             ELSE IF IsSingleAlpha(key_name)
             THEN vk_code = OrdUpper[key_name]
             ELSE FALSE

\* _get_required_vk_codes.
RequiredVkCodes(cfg) ==
    LET key_name == Lower(cfg.key)
    IN  (IF cfg.ctrl THEN {VK_LCONTROL, VK_RCONTROL} ELSE {})
        \cup (IF cfg.shift THEN {VK_LSHIFT, VK_RSHIFT} ELSE {})
        \cup (IF cfg.alt THEN {VK_LMENU, VK_RMENU} ELSE {})
        \cup (IF key_name \in DOMAIN required_vk_codes_mapping
              THEN {required_vk_codes_mapping[key_name]}
              ELSE IF IsSingleAlpha(key_name)
              THEN {OrdUpper[key_name]}
              ELSE {})

(***************************************************************************)
(* Bounds of the model and the program's constants.                        *)
(***************************************************************************)
\* debounce_interval = 0.05 s, in milliseconds.
DebounceMs == 50
\* Hook threads that can be created in one behaviour.
MaxThreads == 2
\* The clock: time.time() in milliseconds, StartTime at construction.
StartTime == 100
TickMs == 25
MaxTicks == 3

\* Key events recorded in history by the replay specification.
MaxHist == 4

\* Listeners constructed in one run of the application.
MaxListeners == 2

Threads == 1..MaxThreads
MaxTime == StartTime + MaxTicks * TickMs

\* The default configuration of HotkeyListener.__init__, and the other
\* configurations the model hands to the listener.
DefaultConfig == [ctrl |-> TRUE, shift |-> TRUE, alt |-> FALSE, key |-> "f12"]
AltConfig == [ctrl |-> TRUE, shift |-> TRUE, alt |-> TRUE, key |-> "F12"]
KeyOnlyConfig == [ctrl |-> FALSE, shift |-> FALSE, alt |-> FALSE, key |-> "f12"]
CtrlKeyConfig == [ctrl |-> TRUE, shift |-> FALSE, alt |-> FALSE, key |-> "F12"]

\* A configuration whose key name is in no table and is not a single letter.
UnresolvedConfig == [ctrl |-> TRUE, shift |-> FALSE, alt |-> FALSE, key |-> "capslock"]

\* Key codes and configurations of the tracker specifications.
Keys == {VK_LCONTROL, VK_RCONTROL, VK_LSHIFT, VK_LMENU, VK_F12}
Configs == {DefaultConfig, AltConfig}
\* Key codes and configurations of the lifecycle specifications.
LifeKeys == {VK_F12}
LifeConfigs == {KeyOnlyConfig, CtrlKeyConfig}
\* Key codes of the specification of successive start/stop sessions.
SessionKeys == {VK_LCONTROL, VK_F12}
\* Key codes and configurations of the replay specification.
ReplayKeys == {VK_F12, VK_LMENU, VK_RMENU}
ReplayConfigs == {KeyOnlyConfig}
\* Key codes and configurations of the predicate specification: every
\* choice of the three modifier flags, both variants of every modifier.
PredicateKeys ==
    {VK_LCONTROL, VK_RCONTROL, VK_LSHIFT, VK_RSHIFT, VK_LMENU, VK_RMENU, VK_F12}
PredicateConfigs ==
    [ctrl : BOOLEAN, shift : BOOLEAN, alt : BOOLEAN, key : {"f12"}]
\* Key codes and configurations of the reconfiguration specification: two
\* configurations with different main keys, F12 and the letter A.
LetterKeyConfig == [ctrl |-> FALSE, shift |-> FALSE, alt |-> FALSE, key |-> "a"]
ReconfigConfigs == {KeyOnlyConfig, LetterKeyConfig}
ReconfigKeys == {VK_F12, OrdUpper["a"]}
\* Key names, configurations and key codes of the key resolution
\* specification: every name of the three tables, every letter, names in
\* upper case, and names that resolve to nothing.
KeyNames ==
    DOMAIN key_mapping \cup DOMAIN was_hotkey_key_mapping
    \cup DOMAIN required_vk_codes_mapping \cup DOMAIN OrdUpper
    \cup DOMAIN LowerTable \cup {"capslock", "", "f13"}
ResolveConfigs ==
    [ctrl : BOOLEAN, shift : BOOLEAN, alt : BOOLEAN, key : KeyNames]
ResolveKeys == {VK_LCONTROL, VK_F12}
\* Key codes and configurations of the application specification.
AppKeys == {VK_F12, OrdUpper["a"]}
AppConfigs == {KeyOnlyConfig, LetterKeyConfig}
\* Configurations a caller hands to register_hotkey / update_hotkey_config.
ConfigInputs == {KeyOnlyConfig, CtrlKeyConfig, UnresolvedConfig}

VARIABLES
    hotkey_config,      \* self.hotkey_config
    is_running,         \* self.is_running
    hook_id,            \* self.hook_id: 0 is None/NULL, t the handle thread t obtained
    pressed_keys,       \* self.pressed_keys
    hotkey_active,      \* self.hotkey_active
    last_hotkey_time,   \* self.last_hotkey_time (ms)
    now,                \* time.time() (ms), non-decreasing
    tpc,                \* position of each hook thread in _hook_proc
    nthreads,           \* hook threads created so far
    installed,          \* hook handles registered with the OS
    mpc,                \* position of the calling thread inside start/stop/update
    start_ret,          \* what the last completed start() returned
    install_failed,     \* threads whose SetWindowsHookExW returned NULL
    emitted,            \* signals the last step delivered to the connected slots
    lastEvent,          \* the last signal emitted so far ("none": nothing yet)
    actTime,            \* when hotkey_pressed was last emitted (-1: never)
    c1pos, c1outs,      \* progress through the key sequence of C1 and its signals
    c4on, c4acts,       \* a run of key-downs from empty pressed_keys, its activations
    c4last,             \* the code of the last key-down of that run (0: none)
    sessDowns,          \* codes that had a key-down since the last start()
    forwarded,          \* CallNextHookEx calls made by the last step ("fwd")
    history,            \* the key events processed so far, with their times ("hist")
    last_call,          \* the latest call made on the listener (<<>>: none yet)
    retired             \* the listeners constructed earlier, oldest first

listenerVars == <<hotkey_config, pressed_keys, hotkey_active, last_hotkey_time>>
lifeVars == <<is_running, hook_id, tpc, nthreads, installed, mpc, start_ret, install_failed>>
scenVars == <<c1pos, c1outs, c4on, c4acts, c4last>>
obsVars == <<emitted, lastEvent, actTime, scenVars, sessDowns, forwarded, history>>
vars == <<listenerVars, lifeVars, obsVars, last_call, now, retired>>

(***************************************************************************)
(* The tracker: _on_key_down and _on_key_up on the listener's fields.      *)
(* L is [pressed, active, last]; the result adds out, the signals emitted. *)
(***************************************************************************)
\* Variants of the two handlers with a plausible slip each: activation tied
\* to the main key's own key-down, no debounce test, a debounced release.
on_key_down_main_key_only(L, cfg, current_time, vk_code) ==
    LET pressed == L.pressed \cup {vk_code}
        hotkey_matched == IsHotkeyPressed(cfg, pressed)
    IN  IF hotkey_matched
        THEN IF ~L.active /\ vk_code = MainKeyCode(cfg)
                /\ current_time - L.last >= DebounceMs
             THEN [pressed |-> pressed, active |-> TRUE, last |-> current_time,
                   out |-> <<"Activated">>]
             ELSE [pressed |-> pressed, active |-> L.active, last |-> L.last,
                   out |-> <<>>]
        ELSE [pressed |-> pressed, active |-> FALSE, last |-> L.last,
              out |-> <<>>]

on_key_down_no_debounce(L, cfg, current_time, vk_code) ==
    LET pressed == L.pressed \cup {vk_code}
        hotkey_matched == IsHotkeyPressed(cfg, pressed)
    IN  IF hotkey_matched
        THEN IF ~L.active
             THEN [pressed |-> pressed, active |-> TRUE, last |-> current_time,
                   out |-> <<"Activated">>]
             ELSE [pressed |-> pressed, active |-> L.active, last |-> L.last,
                   out |-> <<>>]
        ELSE [pressed |-> pressed, active |-> FALSE, last |-> L.last,
              out |-> <<>>]

on_key_up_debounced(L, cfg, vk_code) ==
    IF vk_code \in L.pressed
    THEN IF WasHotkeyKey(cfg, vk_code) /\ now - L.last >= DebounceMs
         THEN [pressed |-> L.pressed \ {vk_code}, active |-> FALSE,
               last |-> L.last, out |-> <<"Deactivated">>]
         ELSE [pressed |-> L.pressed \ {vk_code}, active |-> L.active,
               last |-> L.last, out |-> <<>>]
    ELSE [pressed |-> L.pressed, active |-> L.active, last |-> L.last,
          out |-> <<>>]

\* A release handler that forgets only the keys of the combination.
on_key_up_only_hotkey_keys(L, cfg, vk_code) ==
    IF vk_code \in L.pressed /\ WasHotkeyKey(cfg, vk_code)
    THEN [pressed |-> L.pressed \ {vk_code}, active |-> FALSE,
          last |-> L.last, out |-> <<"Deactivated">>]
    ELSE [pressed |-> L.pressed, active |-> L.active, last |-> L.last,
          out |-> <<>>]

\* A debounce that restarts its window at every suppressed activation.
on_key_down_sliding_window(L, cfg, current_time, vk_code) ==
    LET pressed == L.pressed \cup {vk_code}
        hotkey_matched == IsHotkeyPressed(cfg, pressed)
    IN  IF hotkey_matched
        THEN IF ~L.active
             THEN IF current_time - L.last >= DebounceMs
                  THEN [pressed |-> pressed, active |-> TRUE,
                        last |-> current_time, out |-> <<"Activated">>]
                  ELSE [pressed |-> pressed, active |-> FALSE,
                        last |-> current_time, out |-> <<>>]
             ELSE [pressed |-> pressed, active |-> L.active, last |-> L.last,
                   out |-> <<>>]
        ELSE [pressed |-> pressed, active |-> FALSE, last |-> L.last,
              out |-> <<>>]

on_key_down(L, cfg, current_time, vk_code) ==
    LET pressed == L.pressed \cup {vk_code}
        hotkey_matched == IsHotkeyPressed(cfg, pressed)
    IN  IF hotkey_matched
        THEN IF ~L.active /\ current_time - L.last >= DebounceMs
             THEN [pressed |-> pressed, active |-> TRUE, last |-> current_time,
                   out |-> <<"Activated">>]
             ELSE [pressed |-> pressed, active |-> L.active, last |-> L.last,
                   out |-> <<>>]
        ELSE [pressed |-> pressed, active |-> FALSE, last |-> L.last,
              out |-> <<>>]

\* A release handler that deactivates on the main key's release only.
on_key_up_main_key_only(L, cfg, vk_code) ==
    IF vk_code \in L.pressed
    THEN IF MainKeyCode(cfg) # 0 /\ vk_code = MainKeyCode(cfg)
         THEN [pressed |-> L.pressed \ {vk_code}, active |-> FALSE,
               last |-> L.last, out |-> <<"Deactivated">>]
         ELSE [pressed |-> L.pressed \ {vk_code}, active |-> L.active,
               last |-> L.last, out |-> <<>>]
    ELSE [pressed |-> L.pressed, active |-> L.active, last |-> L.last,
          out |-> <<>>]

on_key_up(L, cfg, vk_code) ==
    IF vk_code \in L.pressed
    THEN IF WasHotkeyKey(cfg, vk_code)
         THEN [pressed |-> L.pressed \ {vk_code}, active |-> FALSE,
               last |-> L.last, out |-> <<"Deactivated">>]
         ELSE [pressed |-> L.pressed \ {vk_code}, active |-> L.active,
               last |-> L.last, out |-> <<>>]
    ELSE [pressed |-> L.pressed, active |-> L.active, last |-> L.last,
          out |-> <<>>]

(***************************************************************************)
(* Observers of the emitted signals: the key sequence of the               *)
(* specification's worked example ("c1"), a run of key-downs from an empty *)
(* pressed_keys ("c4"), the key-downs of one start/stop session ("sess"),  *)
(* the calls to the next hook ("fwd") and the events processed ("hist").   *)
(* A specification follows the observers named in its track set.           *)
(***************************************************************************)
C1Scenario ==
    << [dir |-> "down", vk |-> VK_LCONTROL], [dir |-> "down", vk |-> VK_LSHIFT],
       [dir |-> "down", vk |-> VK_F12], [dir |-> "up", vk |-> VK_F12],
       [dir |-> "up", vk |-> VK_LCONTROL], [dir |-> "up", vk |-> VK_LSHIFT] >>

CountActivated(out) == Cardinality({i \in 1..Len(out) : out[i] = "Activated"})

Min(a, b) == IF a < b THEN a ELSE b

\* One invocation of the hook callback on the listener S (its fields and the
\* observers), for the key event ev: _static_keyboard_proc with nCode >= 0.
static_keyboard_proc(S, cfg, t, ev, track) ==
    LET L == [pressed |-> S.pressed, active |-> S.active, last |-> S.last]
        r == IF ev.dir = "down" THEN on_key_down(L, cfg, t, ev.vk)
             ELSE on_key_up(L, cfg, ev.vk)
        elapsed == t - S.last >= DebounceMs
        c1start == /\ "c1" \in track
                   /\ ev = C1Scenario[1]
                   /\ cfg = DefaultConfig
                   /\ S.pressed = {} /\ ~S.active /\ elapsed
        c1next == /\ S.c1pos \in 1..(Len(C1Scenario) - 1)
                  /\ ev = C1Scenario[S.c1pos + 1]
        c4start == "c4" \in track /\ ev.dir = "down" /\ S.pressed = {} /\ elapsed
    IN  [ pressed |-> r.pressed, active |-> r.active, last |-> r.last,
          emitted |-> S.emitted \o r.out,
          lastEvent |-> IF r.out # <<>> THEN r.out[Len(r.out)] ELSE S.lastEvent,
          actTime |-> IF CountActivated(r.out) > 0 THEN t ELSE S.actTime,
          c1pos |-> IF c1start THEN 1 ELSE IF c1next THEN S.c1pos + 1 ELSE 0,
          c1outs |-> IF c1start THEN <<r.out>>
                     ELSE IF c1next THEN Append(S.c1outs, r.out) ELSE <<>>,
          c4on |-> ev.dir = "down" /\ (c4start \/ S.c4on),
          c4acts |-> IF ev.dir = "up" THEN 0
                     ELSE IF c4start THEN CountActivated(r.out)
                     ELSE IF S.c4on THEN Min(2, S.c4acts + CountActivated(r.out))
                     ELSE 0,
          c4last |-> IF ev.dir = "down" /\ (c4start \/ S.c4on) THEN ev.vk ELSE 0,
          sessDowns |-> IF "sess" \in track /\ ev.dir = "down"
                        THEN S.sessDowns \cup {ev.vk}
                        ELSE S.sessDowns,
          forwarded |-> S.forwarded ]

\* The arguments CallNextHookEx receives.
NextHookArgs(call) ==
    [nCode |-> call.nCode, wParam |-> call.wParam, lParam |-> call.lParam]

\* An exception is raised inside the try block of the callback.  "cast":
\* reading the KBDLLHOOKSTRUCT behind lParam raises, before any handler runs.
\* "check": _is_hotkey_pressed / _was_hotkey_key raises (hotkey_config is not
\* a dict, or its key is not a string and has no lower()); _on_key_up calls
\* _was_hotkey_key only for a code that is in pressed_keys.
Faults(S, call) ==
    /\ call.nCode >= 0
    /\ \/ /\ call.fault = "cast"
          /\ call.wParam \in {WM_KEYDOWN, WM_SYSKEYDOWN, WM_KEYUP, WM_SYSKEYUP}
       \/ /\ call.fault = "check"
          /\ \/ call.wParam \in {WM_KEYDOWN, WM_SYSKEYDOWN}
             \/ /\ call.wParam \in {WM_KEYUP, WM_SYSKEYUP}
                /\ call.lParam \in S.pressed

\* A variant of the callback that returns without calling CallNextHookEx
\* when processing raised.
hook_callback_swallow_on_fault(S, cfg, t, call, track) ==
    LET down == call.wParam \in {WM_KEYDOWN, WM_SYSKEYDOWN}
        up == call.wParam \in {WM_KEYUP, WM_SYSKEYUP}
        ev == [dir |-> IF down THEN "down" ELSE "up", vk |-> call.lParam]
        idle == [S EXCEPT !.c1pos = 0, !.c1outs = <<>>, !.c4on = FALSE,
                          !.c4acts = 0, !.c4last = 0]
        R == IF call.nCode >= 0 /\ (down \/ up)
             THEN IF Faults(S, call)
                  THEN IF call.fault = "cast" THEN idle
                       ELSE [idle EXCEPT !.pressed = IF down
                                                     THEN @ \cup {call.lParam}
                                                     ELSE @ \ {call.lParam}]
                  ELSE static_keyboard_proc(S, cfg, t, ev, track)
             ELSE idle
    IN  IF Faults(S, call) THEN R
        ELSE [R EXCEPT !.forwarded = Append(@, NextHookArgs(call))]

\* One invocation of the registered callback (_hook_callback, that is
\* _static_keyboard_proc) with the arguments of call: the try block on a key
\* message with nCode >= 0, the except clause, and then CallNextHookEx.
hook_callback(S, cfg, t, call, track) ==
    LET down == call.wParam \in {WM_KEYDOWN, WM_SYSKEYDOWN}
        up == call.wParam \in {WM_KEYUP, WM_SYSKEYUP}
        ev == [dir |-> IF down THEN "down" ELSE "up", vk |-> call.lParam]
        idle == [S EXCEPT !.c1pos = 0, !.c1outs = <<>>, !.c4on = FALSE,
                          !.c4acts = 0, !.c4last = 0]
        R == IF call.nCode >= 0 /\ (down \/ up)
             THEN IF Faults(S, call)
                  THEN IF call.fault = "cast" THEN idle
                       ELSE [idle EXCEPT !.pressed = IF down
                                                     THEN @ \cup {call.lParam}
                                                     ELSE @ \ {call.lParam}]
                  ELSE static_keyboard_proc(S, cfg, t, ev, track)
             ELSE idle
    IN  [R EXCEPT !.forwarded = Append(@, NextHookArgs(call))]

\* The OS calls every installed hook for one event, one after the other.
RECURSIVE CallHooks(_, _, _, _, _, _)
CallHooks(S, cfg, t, call, track, n) ==
    IF n = 0 THEN S
    ELSE CallHooks(hook_callback(S, cfg, t, call, track), cfg, t, call,
                   track, n - 1)

\* The listener whose start() created hook thread h: an index into
\* retired, or the next index for the listener constructed last.
hook_owner(h) ==
    IF \E i \in 1..Len(retired) : h \in retired[i].threads
    THEN CHOOSE i \in 1..Len(retired) : h \in retired[i].threads
    ELSE Len(retired) + 1

\* A callback that works on the listener that installed the hook.
callback_instance_hook_owner(h) == hook_owner(h)

\* The listener the callback of hook h works on: _global_listener_instance,
\* which every __init__ overwrites with the listener being constructed.
callback_instance(h) == Len(retired) + 1

\* The callbacks of n hooks run on the earlier listener R.
CallRetired(R, call, n) ==
    LET S0 == [ pressed |-> R.pressed_keys, active |-> R.hotkey_active,
                last |-> R.last_hotkey_time, emitted |-> <<>>,
                lastEvent |-> "none", actTime |-> -1,
                c1pos |-> 0, c1outs |-> <<>>,
                c4on |-> FALSE, c4acts |-> 0, c4last |-> 0,
                sessDowns |-> {}, forwarded |-> <<>> ]
        S == CallHooks(S0, R.hotkey_config, now, call, {}, n)
    IN  [R EXCEPT !.pressed_keys = S.pressed, !.hotkey_active = S.active,
                  !.last_hotkey_time = S.last]

\* Installed hooks whose owning thread is pumping messages in GetMessage.
LiveHooks == {h \in installed : tpc[h] = "getmsg"}

(***************************************************************************)
(* Initial state: HotkeyListener.__init__(hotkey_config).                  *)
(***************************************************************************)
InitWith(cfgs) ==
    /\ hotkey_config \in cfgs
    /\ is_running = FALSE
    /\ hook_id = 0
    /\ pressed_keys = {}
    /\ hotkey_active = FALSE
    /\ last_hotkey_time = 0
    /\ now = StartTime
    /\ tpc = [t \in Threads |-> "none"]
    /\ nthreads = 0
    /\ installed = {}
    /\ mpc = "idle"
    /\ start_ret = "none"
    /\ install_failed = {}
    /\ emitted = <<>>
    /\ lastEvent = "none"
    /\ actTime = -1
    /\ c1pos = 0
    /\ c1outs = <<>>
    /\ c4on = FALSE
    /\ c4acts = 0
    /\ c4last = 0
    /\ sessDowns = {}
    /\ forwarded = <<>>
    /\ history = <<>>
    /\ last_call = <<>>
    /\ retired = <<>>

(***************************************************************************)
(* Events delivered by the OS through the installed hook(s).  A call is    *)
(* [nCode, wParam, lParam, fault]: lParam stands for the vkCode of the     *)
(* KBDLLHOOKSTRUCT it points to, fault for where processing raises.        *)
(***************************************************************************)
HookCall(call, track) ==
    /\ LiveHooks # {}
    /\ LET S0 == [ pressed |-> pressed_keys, active |-> hotkey_active,
                   last |-> last_hotkey_time, emitted |-> <<>>,
                   lastEvent |-> lastEvent, actTime |-> actTime,
                   c1pos |-> c1pos, c1outs |-> c1outs,
                   c4on |-> c4on, c4acts |-> c4acts, c4last |-> c4last,
                   sessDowns |-> sessDowns, forwarded |-> <<>> ]
           mine == {h \in LiveHooks : callback_instance(h) = Len(retired) + 1}
           \* Between the assignment of _global_listener_instance and the
           \* assignments of the fields, a handler raises AttributeError at
           \* its first access to a field.
           c == IF mpc = "ctor" THEN [call EXCEPT !.fault = "cast"] ELSE call
       IN  \E S \in {CallHooks(S0, hotkey_config, now, c, track,
                                Cardinality(mine))} :
           /\ pressed_keys' = S.pressed
           /\ hotkey_active' = S.active
           /\ last_hotkey_time' = S.last
           \* Before init_modules has connected the signals of the new
           \* listener, an emission reaches no slot.
           /\ emitted' = IF mpc = "connect" THEN <<>> ELSE S.emitted
           /\ lastEvent' = IF mpc = "connect" THEN lastEvent ELSE S.lastEvent
           /\ actTime' = IF mpc = "connect" THEN actTime ELSE S.actTime
           /\ c1pos' = S.c1pos
           /\ c1outs' = S.c1outs
           /\ c4on' = S.c4on
           /\ c4acts' = S.c4acts
           /\ c4last' = S.c4last
           /\ sessDowns' = S.sessDowns
           /\ forwarded' = IF "fwd" \in track THEN S.forwarded ELSE <<>>
    /\ history' = IF "hist" \in track
                  THEN Append(history,
                              [dir |-> IF call.wParam \in {WM_KEYDOWN, WM_SYSKEYDOWN}
                                       THEN "down" ELSE "up",
                               vk |-> call.lParam, t |-> now])
                  ELSE history
    /\ retired' = [i \in 1..Len(retired) |->
                      CallRetired(retired[i], call,
                          Cardinality({h \in LiveHooks : callback_instance(h) = i}))]
    /\ UNCHANGED <<hotkey_config, lifeVars, last_call, now>>

\* A key event that is processed without a fault.
KeyEvent(ev, track) ==
    HookCall([nCode |-> 0,
              wParam |-> IF ev.dir = "down" THEN WM_KEYDOWN ELSE WM_KEYUP,
              lParam |-> ev.vk, fault |-> "none"], track)

KeyDown(vk, track) == KeyEvent([dir |-> "down", vk |-> vk], track)

KeyUp(vk, track) == KeyEvent([dir |-> "up", vk |-> vk], track)

\* time.time() advances.
Tick ==
    /\ now + TickMs <= MaxTime
    /\ now' = now + TickMs
    /\ UNCHANGED last_call
    /\ emitted' = <<>>
    /\ forwarded' = <<>>
    /\ UNCHANGED <<history, retired>>
    /\ UNCHANGED <<listenerVars, lifeVars, lastEvent, actTime, scenVars,
                   sessDowns>>

(***************************************************************************)
(* The calling thread: start(), stop(), update_hotkey_config(),            *)
(* register_hotkey().  mpc is where the caller stands between two steps    *)
(* that a hook thread can interleave with.                                 *)
(***************************************************************************)
\* The record of a start() or stop() call entered in the current state.
Called(op) ==
    << [op |-> op, cfg |-> hotkey_config, was_running |-> is_running,
        old_hook |-> 0] >>

ResetScenarios ==
    /\ c1pos' = 0
    /\ c1outs' = <<>>
    /\ c4on' = FALSE
    /\ c4acts' = 0
    /\ c4last' = 0

\* start(): "if self.is_running: return True".
StartWhenRunning ==
    /\ mpc = "idle"
    /\ is_running
    /\ start_ret' = "true"
    /\ last_call' = Called("start")
    /\ emitted' = <<>>
    /\ forwarded' = <<>>
    /\ UNCHANGED <<history, retired>>
    /\ UNCHANGED <<listenerVars, is_running, hook_id, tpc, nthreads, installed,
                   mpc, install_failed, lastEvent, actTime, scenVars, sessDowns, now>>

\* A start() without the test of is_running.
StartSpawn_unguarded ==
    /\ mpc \in {"idle", "upd_start"}
    /\ nthreads < MaxThreads
    /\ nthreads' = nthreads + 1
    /\ tpc' = [tpc EXCEPT ![nthreads + 1] = "install"]
    /\ mpc' = IF mpc = "idle" THEN "start_flag" ELSE "upd_start_flag"
    /\ sessDowns' = {}
    /\ last_call' = IF mpc = "idle" THEN Called("start") ELSE last_call
    /\ emitted' = <<>>
    /\ forwarded' = <<>>
    /\ UNCHANGED <<history, retired>>
    /\ UNCHANGED <<listenerVars, is_running, hook_id, installed, start_ret,
                   install_failed, lastEvent, actTime, scenVars, now>>

\* start(): the thread is created and started; is_running is not yet set.
StartSpawn ==
    /\ mpc \in {"idle", "upd_start"}
    /\ ~is_running
    /\ nthreads < MaxThreads
    /\ nthreads' = nthreads + 1
    /\ tpc' = [tpc EXCEPT ![nthreads + 1] = "install"]
    /\ mpc' = IF mpc = "idle" THEN "start_flag" ELSE "upd_start_flag"
    /\ sessDowns' = {}
    /\ last_call' = IF mpc = "idle" THEN Called("start") ELSE last_call
    /\ emitted' = <<>>
    /\ forwarded' = <<>>
    /\ UNCHANGED <<history, retired>>
    /\ UNCHANGED <<listenerVars, is_running, hook_id, installed, start_ret,
                   install_failed, lastEvent, actTime, scenVars, now>>

\* start(): Thread.start() raises; the except branch returns False.
StartThreadError ==
    /\ mpc \in {"idle", "upd_start"}
    /\ ~is_running
    /\ mpc' = "idle"
    /\ start_ret' = "false"
    /\ last_call' = IF mpc = "idle" THEN Called("start") ELSE last_call
    /\ emitted' = <<>>
    /\ forwarded' = <<>>
    /\ UNCHANGED <<history, retired>>
    /\ UNCHANGED <<listenerVars, is_running, hook_id, tpc, nthreads, installed,
                   install_failed, lastEvent, actTime, scenVars, sessDowns, now>>

\* start(): "self.is_running = True; return True".
StartSetRunning ==
    /\ mpc \in {"start_flag", "upd_start_flag"}
    /\ is_running' = TRUE
    /\ start_ret' = "true"
    /\ mpc' = "idle"
    /\ UNCHANGED last_call
    /\ emitted' = <<>>
    /\ forwarded' = <<>>
    /\ UNCHANGED <<history, retired>>
    /\ UNCHANGED <<listenerVars, hook_id, tpc, nthreads, installed,
                   install_failed, lastEvent, actTime, scenVars, sessDowns, now>>

\* stop(): "if not self.is_running: return".
StopWhenStopped ==
    /\ mpc = "idle"
    /\ ~is_running
    /\ last_call' = Called("stop")
    /\ emitted' = <<>>
    /\ forwarded' = <<>>
    /\ UNCHANGED <<history, retired>>
    /\ UNCHANGED <<listenerVars, lifeVars, lastEvent, actTime, scenVars, sessDowns, now>>

\* stop(): "self.is_running = False".
StopClearRunning ==
    /\ mpc = "idle"
    /\ is_running
    /\ is_running' = FALSE
    /\ mpc' = "stop_unhook"
    /\ last_call' = Called("stop")
    /\ emitted' = <<>>
    /\ forwarded' = <<>>
    /\ UNCHANGED <<history, retired>>
    /\ UNCHANGED <<listenerVars, hook_id, tpc, nthreads, installed, start_ret,
                   install_failed, lastEvent, actTime, scenVars, sessDowns, now>>

\* stop(): "if self.hook_id: UnhookWindowsHookEx(self.hook_id); self.hook_id = None".
StopUnhook ==
    /\ mpc \in {"stop_unhook", "upd_unhook"}
    /\ installed' = IF hook_id # 0 THEN installed \ {hook_id} ELSE installed
    /\ hook_id' = 0
    /\ mpc' = IF mpc = "stop_unhook" THEN "idle" ELSE "upd_start"
    /\ UNCHANGED last_call
    /\ emitted' = <<>>
    /\ forwarded' = <<>>
    /\ UNCHANGED <<history, retired>>
    /\ UNCHANGED <<listenerVars, is_running, tpc, nthreads, start_ret,
                   install_failed, lastEvent, actTime, scenVars, sessDowns, now>>

\* An update_hotkey_config that only assigns the configuration.
UpdateHotkeyConfig_no_restart(new_config) ==
    /\ mpc = "idle"
    /\ hotkey_config' = new_config
    /\ ResetScenarios
    /\ last_call' = << [op |-> "update_hotkey_config", cfg |-> new_config,
                        was_running |-> is_running, old_hook |-> hook_id] >>
    /\ emitted' = <<>>
    /\ forwarded' = <<>>
    /\ UNCHANGED <<history, retired>>
    /\ UNCHANGED <<pressed_keys, hotkey_active, last_hotkey_time, lifeVars,
                   lastEvent, actTime, sessDowns, now>>

\* update_hotkey_config(new_config): the assignment, and when running the
\* first statement of stop(); stop()'s unhook and start() follow.
UpdateHotkeyConfig(new_config) ==
    /\ mpc = "idle"
    /\ hotkey_config' = new_config
    /\ is_running' = FALSE
    /\ mpc' = IF is_running THEN "upd_unhook" ELSE "idle"
    /\ ResetScenarios
    /\ last_call' = << [op |-> "update_hotkey_config", cfg |-> new_config,
                        was_running |-> is_running, old_hook |-> hook_id] >>
    /\ emitted' = <<>>
    /\ forwarded' = <<>>
    /\ UNCHANGED <<history, retired>>
    /\ UNCHANGED <<pressed_keys, hotkey_active, last_hotkey_time, hook_id, tpc,
                   nthreads, installed, start_ret, install_failed, lastEvent,
                   actTime, sessDowns, now>>

\* register_hotkey(hotkey_config).
RegisterHotkey(new_config) ==
    /\ mpc = "idle"
    /\ hotkey_config' = new_config
    /\ ResetScenarios
    /\ last_call' = << [op |-> "register_hotkey", cfg |-> new_config,
                        was_running |-> is_running, old_hook |-> 0] >>
    /\ emitted' = <<>>
    /\ forwarded' = <<>>
    /\ UNCHANGED <<history, retired>>
    /\ UNCHANGED <<pressed_keys, hotkey_active, last_hotkey_time, lifeVars,
                   lastEvent, actTime, sessDowns, now>>

(***************************************************************************)
(* The hook thread: _hook_proc.                                            *)
(***************************************************************************)
\* "self.hook_id = SetWindowsHookExW(...)": the OS registers the hook.
ThreadInstallOk(t) ==
    /\ tpc[t] = "install"
    /\ installed' = installed \cup {t}
    /\ hook_id' = t
    /\ tpc' = [tpc EXCEPT ![t] = "check_id"]
    /\ UNCHANGED last_call
    /\ emitted' = <<>>
    /\ forwarded' = <<>>
    /\ UNCHANGED <<history, retired>>
    /\ UNCHANGED <<listenerVars, is_running, nthreads, mpc, start_ret,
                   install_failed, lastEvent, actTime, scenVars, sessDowns, now>>

\* SetWindowsHookExW returns NULL.
ThreadInstallFails(t) ==
    /\ tpc[t] = "install"
    /\ hook_id' = 0
    /\ install_failed' = install_failed \cup {t}
    /\ tpc' = [tpc EXCEPT ![t] = "check_id"]
    /\ UNCHANGED last_call
    /\ emitted' = <<>>
    /\ forwarded' = <<>>
    /\ UNCHANGED <<history, retired>>
    /\ UNCHANGED <<listenerVars, is_running, nthreads, installed, mpc,
                   start_ret, lastEvent, actTime, scenVars,
                   sessDowns, now>>

\* "if not self.hook_id: return" (the finally clause follows a return).
ThreadCheckHook(t) ==
    /\ tpc[t] = "check_id"
    /\ tpc' = [tpc EXCEPT ![t] = IF hook_id = 0 THEN "finally" ELSE "loop"]
    /\ UNCHANGED last_call
    /\ emitted' = <<>>
    /\ forwarded' = <<>>
    /\ UNCHANGED <<history, retired>>
    /\ UNCHANGED <<listenerVars, is_running, hook_id, nthreads, installed, mpc,
                   start_ret, install_failed, lastEvent, actTime, scenVars, sessDowns, now>>

\* "while self.is_running:" then the blocking GetMessage.
ThreadLoopTest(t) ==
    /\ tpc[t] = "loop"
    /\ tpc' = [tpc EXCEPT ![t] = IF is_running THEN "getmsg" ELSE "finally"]
    /\ UNCHANGED last_call
    /\ emitted' = <<>>
    /\ forwarded' = <<>>
    /\ UNCHANGED <<history, retired>>
    /\ UNCHANGED <<listenerVars, is_running, hook_id, nthreads, installed, mpc,
                   start_ret, install_failed, lastEvent, actTime, scenVars, sessDowns, now>>

\* A message is posted to the thread's queue: GetMessage returns, the message
\* is dispatched (or dispatching raises and is_running is re-read) and the
\* loop condition is tested again.  Nothing in the program posts WM_QUIT.
OsMessage(t) ==
    /\ tpc[t] = "getmsg"
    /\ tpc' = [tpc EXCEPT ![t] = "loop"]
    /\ UNCHANGED last_call
    /\ emitted' = <<>>
    /\ forwarded' = <<>>
    /\ UNCHANGED <<history, retired>>
    /\ UNCHANGED <<listenerVars, is_running, hook_id, nthreads, installed, mpc,
                   start_ret, install_failed, lastEvent, actTime, scenVars, sessDowns, now>>

\* finally: "if self.hook_id: UnhookWindowsHookEx(self.hook_id); self.hook_id = None".
ThreadFinally(t) ==
    /\ tpc[t] = "finally"
    /\ installed' = IF hook_id # 0 THEN installed \ {hook_id} ELSE installed
    /\ hook_id' = 0
    /\ tpc' = [tpc EXCEPT ![t] = "done"]
    /\ UNCHANGED last_call
    /\ emitted' = <<>>
    /\ forwarded' = <<>>
    /\ UNCHANGED <<history, retired>>
    /\ UNCHANGED <<listenerVars, is_running, nthreads, mpc, start_ret,
                   install_failed, lastEvent, actTime, scenVars, sessDowns, now>>

(***************************************************************************)
(* Spec: the listener's lifecycle, every interleaving of the calling       *)
(* thread with the hook threads, and the key events of one key.            *)
(***************************************************************************)
ThreadStep(t) ==
    \/ ThreadInstallOk(t)
    \/ ThreadInstallFails(t)
    \/ ThreadCheckHook(t)
    \/ ThreadLoopTest(t)
    \/ ThreadFinally(t)

CallerStep ==
    \/ StartWhenRunning
    \/ StartSpawn
    \/ StartThreadError
    \/ StartSetRunning
    \/ StopWhenStopped
    \/ StopClearRunning
    \/ StopUnhook

Init == InitWith(LifeConfigs)

Next ==
    \/ CallerStep
    \/ \E c \in LifeConfigs : UpdateHotkeyConfig(c)
    \/ \E c \in LifeConfigs : RegisterHotkey(c)
    \/ \E t \in Threads : ThreadStep(t)
    \/ \E t \in Threads : OsMessage(t)
    \/ \E vk \in LifeKeys : KeyDown(vk, {})
    \/ \E vk \in LifeKeys : KeyUp(vk, {})

Spec == Init /\ [][Next]_vars

(***************************************************************************)
(* SpecKeys: one session of a started listener; every key event of Keys,   *)
(* the clock, and configuration changes through register_hotkey.           *)
(* SpecFixed: the same with a configuration that never changes.            *)
(***************************************************************************)
StartPath ==
    \/ StartSpawn
    \/ StartSetRunning
    \/ \E t \in Threads : ThreadInstallOk(t)
    \/ \E t \in Threads : ThreadCheckHook(t)
    \/ \E t \in Threads : ThreadLoopTest(t)
    \/ \E t \in Threads : ThreadFinally(t)

InitKeys == InitWith(Configs)

NextKeys ==
    \/ StartPath
    \/ \E vk \in Keys : KeyDown(vk, {"c1"})
    \/ \E vk \in Keys : KeyUp(vk, {"c1"})
    \/ Tick
    \/ \E c \in Configs : RegisterHotkey(c)

SpecKeys == InitKeys /\ [][NextKeys]_vars

NextFixed ==
    \/ StartPath
    \/ \E vk \in Keys : KeyDown(vk, {"c4"})
    \/ \E vk \in Keys : KeyUp(vk, {"c4"})
    \/ Tick

SpecFixed == InitKeys /\ [][NextFixed]_vars

(***************************************************************************)
(* SpecSession: successive start/stop sessions.  A call runs to its return *)
(* before the hook thread runs, and the hook thread reaches its message    *)
(* loop before the next call or key event.                                 *)
(***************************************************************************)
Settled == \A t \in Threads : tpc[t] \in {"none", "getmsg", "done"}

SessionStart == (mpc = "upd_start" \/ Settled) /\ StartSpawn

SessionStop == Settled /\ StopClearRunning

SessionUpdate(c) == Settled /\ UpdateHotkeyConfig(c)

SessionThread(t) ==
    /\ mpc = "idle"
    /\ (ThreadInstallOk(t) \/ ThreadCheckHook(t) \/ ThreadLoopTest(t))

SessionKeyDown(vk) == mpc = "idle" /\ Settled /\ KeyDown(vk, {"sess"})

SessionKeyUp(vk) == mpc = "idle" /\ Settled /\ KeyUp(vk, {"sess"})

SessionTick == mpc = "idle" /\ Settled /\ Tick

InitSession == InitWith(LifeConfigs)

NextSession ==
    \/ SessionStart
    \/ StartSetRunning
    \/ SessionStop
    \/ StopUnhook
    \/ \E c \in LifeConfigs : SessionUpdate(c)
    \/ \E t \in Threads : SessionThread(t)
    \/ \E vk \in SessionKeys : SessionKeyDown(vk)
    \/ \E vk \in SessionKeys : SessionKeyUp(vk)
    \/ SessionTick

SpecSession == InitSession /\ [][NextSession]_vars

(***************************************************************************)
(* SpecConfig: a listener constructed with a resolvable configuration and  *)
(* reconfigured, stopped or running, with any configuration of             *)
(* ConfigInputs.                                                           *)
(***************************************************************************)
NextConfig ==
    \/ StartPath
    \/ StopUnhook
    \/ \E c \in ConfigInputs : RegisterHotkey(c)
    \/ \E c \in ConfigInputs : UpdateHotkeyConfig(c)
    \/ \E vk \in SessionKeys : KeyDown(vk, {})
    \/ \E vk \in SessionKeys : KeyUp(vk, {})

SpecConfig == Init /\ [][NextConfig]_vars

(***************************************************************************)
(* SpecHook: one started listener and every call the OS can make to its    *)
(* callback: any nCode, any message, processing that raises or not, at    *)
(* one instant of the clock.                                               *)
(***************************************************************************)
\* With nCode < 0 the try block is not entered, so nothing can raise.
HookCalls ==
    [ nCode : {0},
      wParam : {WM_KEYDOWN, WM_KEYUP, WM_SYSKEYDOWN, WM_SYSKEYUP, 0},
      lParam : SessionKeys,
      fault : {"none", "cast", "check"} ]
    \cup [ nCode : {-1},
           wParam : {WM_KEYDOWN, WM_KEYUP, WM_SYSKEYDOWN, WM_SYSKEYUP, 0},
           lParam : SessionKeys,
           fault : {"none"} ]

NextHook ==
    \/ StartPath
    \/ \E call \in HookCalls : HookCall(call, {"fwd"})

SpecHook == Init /\ [][NextHook]_vars

(***************************************************************************)
(* SpecReplay: one started listener with a fixed configuration; every key  *)
(* event of ReplayKeys it processes is recorded, with its time, in history.*)
(***************************************************************************)
ReplayKeyDown(vk) == Len(history) < MaxHist /\ KeyDown(vk, {"hist", "fwd"})

ReplayKeyUp(vk) == Len(history) < MaxHist /\ KeyUp(vk, {"hist", "fwd"})

InitReplay == InitWith(ReplayConfigs)

NextReplay ==
    \/ StartPath
    \/ \E vk \in ReplayKeys : ReplayKeyDown(vk)
    \/ \E vk \in ReplayKeys : ReplayKeyUp(vk)
    \/ Tick

SpecReplay == InitReplay /\ [][NextReplay]_vars

\* The signals the two handlers emit, event by event, when the timed
\* sequence seq is replayed on the tracker fields L.
RECURSIVE ReplayOuts(_, _, _)
ReplayOuts(cfg, L, seq) ==
    IF seq = <<>> THEN <<>>
    ELSE LET e == Head(seq)
             r == IF e.dir = "down" THEN on_key_down(L, cfg, e.t, e.vk)
                  ELSE on_key_up(L, cfg, e.vk)
         IN  <<r.out>> \o ReplayOuts(cfg, [pressed |-> r.pressed,
                                           active |-> r.active,
                                           last |-> r.last], Tail(seq))

\* The tracker fields of a new listener.
NewTracker == [pressed |-> {}, active |-> FALSE, last |-> 0]

IsAltEvent(e) == e.vk \in {VK_LMENU, VK_RMENU}

NotAltEvent(e) == ~IsAltEvent(e)

\* The codes whose most recent event in seq is a key-down.
NetDown(seq) ==
    {vk \in ReplayKeys :
        \E i \in 1..Len(seq) :
            /\ seq[i].vk = vk
            /\ seq[i].dir = "down"
            /\ \A j \in (i + 1)..Len(seq) : seq[j].vk # vk}

(***************************************************************************)
(* SpecReconfig: key events and update_hotkey_config calls on a listener   *)
(* that is started once and never stopped by its owner; calls run to their *)
(* return as in SpecSession.                                               *)
(***************************************************************************)
InitReconfig == InitWith(ReconfigConfigs)

NextReconfig ==
    \/ SessionStart
    \/ StartSetRunning
    \/ StopUnhook
    \/ \E c \in ReconfigConfigs : SessionUpdate(c)
    \/ \E t \in Threads : SessionThread(t)
    \/ \E vk \in ReconfigKeys : SessionKeyDown(vk)
    \/ \E vk \in ReconfigKeys : SessionKeyUp(vk)
    \/ SessionTick

SpecReconfig == InitReconfig /\ [][NextReconfig]_vars

(***************************************************************************)
(* SpecResolve: one started listener under each configuration of           *)
(* ResolveConfigs, and the key events of left Ctrl and F12.                *)
(***************************************************************************)
InitResolve == InitWith(ResolveConfigs)

NextResolve ==
    \/ StartPath
    \/ \E vk \in ResolveKeys : KeyDown(vk, {})
    \/ \E vk \in ResolveKeys : KeyUp(vk, {})

SpecResolve == InitResolve /\ [][NextResolve]_vars

\* The native codes a key event can carry.
MaxVkCode == 255
VkCodes == 0..MaxVkCode

\* The configuration cfg with no modifier requested.
MainKeyOnly(cfg) ==
    [ctrl |-> FALSE, shift |-> FALSE, alt |-> FALSE, key |-> cfg.key]

(***************************************************************************)
(* SpecApp: the application.  ShortcutTool.__init__ constructs the first   *)
(* listener (init_modules), run() starts it, and every accepted settings   *)
(* dialog calls init_modules again: a new listener is constructed and      *)
(* connected, never started, and the listener it replaces is never         *)
(* stopped.  Key events arrive at any point of init_modules.               *)
(***************************************************************************)
\* A settings dialog that leaves the previous listener's hook removed.
ConstructPublish_unhooking(cfg) ==
    /\ mpc = "idle"
    /\ Len(retired) + 1 < MaxListeners
    /\ retired' = Append(retired,
                         [hotkey_config |-> hotkey_config,
                          is_running |-> FALSE, hook_id |-> 0,
                          pressed_keys |-> pressed_keys,
                          hotkey_active |-> hotkey_active,
                          last_hotkey_time |-> last_hotkey_time,
                          threads |-> {t \in Threads : tpc[t] # "none"
                                                        /\ hook_owner(t) = Len(retired) + 1}])
    /\ installed' = installed \ {hook_id}
    /\ hotkey_config' = cfg
    /\ is_running' = FALSE
    /\ hook_id' = 0
    /\ pressed_keys' = {}
    /\ hotkey_active' = FALSE
    /\ last_hotkey_time' = 0
    /\ mpc' = "ctor"
    /\ ResetScenarios
    /\ last_call' = << [op |-> "init_modules", cfg |-> cfg,
                        was_running |-> is_running, old_hook |-> hook_id] >>
    /\ emitted' = <<>>
    /\ forwarded' = <<>>
    /\ UNCHANGED <<tpc, nthreads, start_ret, install_failed, lastEvent,
                   actTime, sessDowns, history, now>>

\* init_modules: HotkeyListener(hotkey_config), up to the assignment of
\* _global_listener_instance.  The listener so far referenced by
\* self.hotkey_listener keeps its fields, its thread and its hook; the
\* variables of the model now stand for the new listener.
ConstructPublish(cfg) ==
    /\ mpc = "idle"
    /\ Len(retired) + 1 < MaxListeners
    /\ retired' = Append(retired,
                         [hotkey_config |-> hotkey_config,
                          is_running |-> is_running, hook_id |-> hook_id,
                          pressed_keys |-> pressed_keys,
                          hotkey_active |-> hotkey_active,
                          last_hotkey_time |-> last_hotkey_time,
                          threads |-> {t \in Threads : tpc[t] # "none"
                                                        /\ hook_owner(t) = Len(retired) + 1}])
    /\ hotkey_config' = cfg
    /\ is_running' = FALSE
    /\ hook_id' = 0
    /\ pressed_keys' = {}
    /\ hotkey_active' = FALSE
    /\ last_hotkey_time' = 0
    /\ mpc' = "ctor"
    /\ ResetScenarios
    /\ last_call' = << [op |-> "init_modules", cfg |-> cfg,
                        was_running |-> is_running, old_hook |-> hook_id] >>
    /\ emitted' = <<>>
    /\ forwarded' = <<>>
    /\ UNCHANGED <<tpc, nthreads, installed, start_ret, install_failed,
                   lastEvent, actTime, sessDowns, history, now>>

\* HotkeyListener.__init__: the assignments of the fields (taken as one
\* step), up to the return of the constructor.
ConstructFields ==
    /\ mpc = "ctor"
    /\ mpc' = "connect"
    /\ emitted' = <<>>
    /\ forwarded' = <<>>
    /\ UNCHANGED <<listenerVars, is_running, hook_id, tpc, nthreads, installed,
                   start_ret, install_failed, lastEvent, actTime, scenVars,
                   sessDowns, history, last_call, now, retired>>

\* init_modules: hotkey_pressed / hotkey_released connected to the handlers.
ConnectSignals ==
    /\ mpc = "connect"
    /\ mpc' = "idle"
    /\ emitted' = <<>>
    /\ forwarded' = <<>>
    /\ UNCHANGED <<listenerVars, is_running, hook_id, tpc, nthreads, installed,
                   start_ret, install_failed, lastEvent, actTime, scenVars,
                   sessDowns, history, last_call, now, retired>>

\* run(): self.hotkey_listener.start(), once, on the first listener.
AppRun == nthreads = 0 /\ retired = <<>> /\ SessionStart

\* show_settings with the dialog accepted, while app.exec() runs.
ShowSettings(cfg) == start_ret = "true" /\ Settled /\ ConstructPublish(cfg)

AppKeyDown(vk) == Settled /\ KeyDown(vk, {})

AppKeyUp(vk) == Settled /\ KeyUp(vk, {})

\* The clock is followed from the construction of the last listener on.
AppTick == Len(retired) + 1 = MaxListeners /\ SessionTick

InitApp == InitWith(AppConfigs)

NextApp ==
    \/ AppRun
    \/ StartSetRunning
    \/ \E t \in Threads : SessionThread(t)
    \/ \E c \in AppConfigs : ShowSettings(c)
    \/ ConstructFields
    \/ ConnectSignals
    \/ \E vk \in AppKeys : AppKeyDown(vk)
    \/ \E vk \in AppKeys : AppKeyUp(vk)
    \/ AppTick

SpecApp == InitApp /\ [][NextApp]_vars

(***************************************************************************)
(* SpecPredicate: one started listener under each choice of the modifier   *)
(* flags, and the key events of both variants of every modifier.           *)
(***************************************************************************)
InitPredicate == InitWith(PredicateConfigs)

NextPredicate ==
    \/ StartPath
    \/ \E vk \in PredicateKeys : KeyDown(vk, {})
    \/ \E vk \in PredicateKeys : KeyUp(vk, {})

SpecPredicate == InitPredicate /\ [][NextPredicate]_vars

\* The left and right codes of a modifier.
ModifierCodes ==
    [ ctrl |-> {VK_LCONTROL, VK_RCONTROL},
      shift |-> {VK_LSHIFT, VK_RSHIFT},
      alt |-> {VK_LMENU, VK_RMENU} ]

(***************************************************************************)
(* FairSpec: Spec with the scheduling the threads get: a hook thread that  *)
(* can take a step of _hook_proc eventually takes it, and a call that has  *)
(* begun runs to its return.  Nothing obliges the OS to post a message to  *)
(* a hook thread, a key to be pressed, or the application to call again.   *)
(***************************************************************************)
CallerContinues == StartSetRunning \/ StopUnhook \/ (mpc = "upd_start" /\ StartSpawn)

NextCalls ==
    \/ CallerStep
    \/ \E t \in Threads : ThreadStep(t)
    \/ \E t \in Threads : OsMessage(t)
    \/ \E vk \in LifeKeys : KeyDown(vk, {})
    \/ \E vk \in LifeKeys : KeyUp(vk, {})

\* The entry of a start() call and of a stop() call.
StartCall == mpc = "idle" /\ (StartWhenRunning \/ StartSpawn \/ StartThreadError)

StopCall == mpc = "idle" /\ (StopWhenStopped \/ StopClearRunning)

\* The same calls and steps without the fairness conditions.
SpecCalls == Init /\ [][NextCalls]_vars

FairSpec ==
    /\ Init
    /\ [][NextCalls]_vars
    /\ \A t \in Threads : WF_vars(ThreadStep(t))
    /\ WF_vars(CallerContinues)

(***************************************************************************)
(* The claims.                                                             *)
(***************************************************************************)
C1Expected ==
    << <<>>, <<>>, <<"Activated">>, <<"Deactivated">>, <<>>, <<>> >>

\* C1: with the default configuration, from empty pressed_keys and an
\* inactive tracker, down(LCTRL) down(LSHIFT) down(F12) up(F12) up(LCTRL)
\* up(LSHIFT) emits Activated at down(F12), Deactivated at up(F12) and
\* nothing else: along the sequence the signals are those of C1Expected.
C1_ExampleSignals ==
    c1pos > 0 => c1outs = SubSeq(C1Expected, 1, c1pos)

\* What the code emits on that sequence: the release of each modifier emits
\* Deactivated again.
C1_CodeSignals ==
    c1pos > 0 =>
        c1outs = SubSeq(<< <<>>, <<>>, <<"Activated">>, <<"Deactivated">>,
                           <<"Deactivated">>, <<"Deactivated">> >>, 1, c1pos)

C1_SequenceCompleted == c1pos = Len(C1Scenario)

\* C2: Deactivated is emitted only by a step taken while the activation
\* flag was true (a key-up processed while hotkey_active is false emits
\* nothing), so Deactivated never outnumbers Activated.
C2_DeactivatedOnlyWhenActive ==
    [][emitted' = <<"Deactivated">> => hotkey_active]_vars

\* C3: two Activated are never emitted without a Deactivated between them,
\* whatever the key events, start/stop and update_hotkey_config calls.
C3_NoDoubleActivated ==
    [][CountActivated(emitted') > 0 => lastEvent # "Activated"]_vars

\* C4: in a run of key-downs that starts from empty pressed_keys with the
\* debounce interval elapsed (no key-up in between), exactly one Activated
\* has been emitted once the combination predicate is true and none before:
\* it is emitted by the key-down that completes the combination.
C4_OrderIndependence ==
    c4on => c4acts = (IF IsHotkeyPressed(hotkey_config, pressed_keys) THEN 1 ELSE 0)

\* A run that a modifier's key-down completed, the main key being down first.
C4_CompletedByModifier ==
    /\ c4on
    /\ c4acts = 1
    /\ emitted = <<"Activated">>
    /\ c4last \in {VK_LCONTROL, VK_RCONTROL}
    /\ pressed_keys = {VK_F12, VK_LSHIFT, c4last}

\* C5: any two Activated emissions are at least the debounce interval apart.
C5_Debounce ==
    [][(CountActivated(emitted') > 0 /\ actTime # -1)
          => now' - actTime >= DebounceMs]_vars

\* The combination was completed again inside the debounce window of an
\* earlier Activated, and no second Activated was emitted.
C5_SuppressedInWindow ==
    /\ IsHotkeyPressed(hotkey_config, pressed_keys)
    /\ ~hotkey_active
    /\ emitted = <<>>
    /\ lastEvent = "Deactivated"
    /\ actTime # -1
    /\ now - actTime < DebounceMs

\* C6 as stated: whenever hotkey_active is true and a key-up of a required
\* key is processed, Deactivated is emitted and hotkey_active is false
\* after that step, however short the time since the activation.
C6_ReleaseAlwaysDeactivates ==
    [][\A vk \in RequiredVkCodes(hotkey_config) \cap Keys :
          (hotkey_active /\ KeyUp(vk, {"c1"}))
             => (emitted' = <<"Deactivated">> /\ ~hotkey_active')]_vars

\* C6 as amended: the same for a required key that is in pressed_keys.
C6_ReleaseOfPressedDeactivates ==
    [][\A vk \in RequiredVkCodes(hotkey_config) \cap Keys :
          (hotkey_active /\ vk \in pressed_keys /\ KeyUp(vk, {"c1"}))
             => (emitted' = <<"Deactivated">> /\ ~hotkey_active')]_vars

\* The main key released in the very millisecond of the activation.
C6_ReleasedInsideWindow ==
    /\ c1pos = 4
    /\ emitted = <<"Deactivated">>
    /\ ~hotkey_active
    /\ now - last_hotkey_time < DebounceMs

\* C7: after a stop and a new start, Activated is emitted only when the
\* key-downs delivered since that start contain the whole combination:
\* codes left in pressed_keys by the earlier session complete nothing.
C7_NoStaleActivation ==
    CountActivated(emitted) > 0 => IsHotkeyPressed(hotkey_config, sessDowns)

\* C8: when stop() returns on a running listener, pressed_keys is empty and
\* hotkey_active is false.
C8_StopClearsTracker ==
    [][(mpc = "stop_unhook" /\ mpc' = "idle")
          => (pressed_keys' = {} /\ ~hotkey_active')]_vars

\* C9: when SetWindowsHookExW failed for the thread a start() created, that
\* start() has returned False and is_running is false.
C9_InstallFailureReported ==
    (nthreads \in install_failed /\ mpc = "idle")
        => (start_ret = "false" /\ ~is_running)

\* C10: once stop() has returned, a hook thread blocked in GetMessage is
\* woken and terminates.
C10_StopEndsThread ==
    \A t \in Threads :
        (tpc[t] = "getmsg" /\ ~is_running /\ mpc = "idle") ~> (tpc[t] = "done")

\* No hook thread can take a step of its own: each one has not been created,
\* has returned, or is blocked in GetMessage.
Quiesced == \A t \in Threads : tpc[t] \in {"none", "getmsg", "done"}

\* C11: under start() and stop() calls interleaved in every way with the
\* hook threads, once stop() was the last call (no call is running and
\* is_running is false) and the threads have quiesced, no hook of the
\* listener is still registered with the OS.
C11_NoDanglingHook ==
    (mpc = "idle" /\ ~is_running /\ Quiesced) => installed = {}

\* C12: at most one hook thread is alive and at most one hook is installed,
\* so a key event is handed to the tracker once.
C12_SingleHookThread ==
    /\ Cardinality({t \in Threads : tpc[t] \notin {"none", "done"}}) <= 1
    /\ Cardinality(installed) <= 1

\* C13: a configuration whose key name resolves to no key code is never the
\* listener's configuration: the constructor, register_hotkey and
\* update_hotkey_config reject it.
C13_UnresolvedRejected == MainKeyCode(hotkey_config) # 0

\* C14: every step that changes hotkey_config is taken while the hook is
\* stopped: is_running is false and no hook of the listener is installed.
C14_ConfigFixedWhileRunning ==
    [][hotkey_config' # hotkey_config => (~is_running /\ installed = {})]_vars

\* C15: every invocation of the hook callback, whatever nCode and message
\* and whether or not processing raises, calls CallNextHookEx exactly once
\* with the nCode, wParam and lParam it received.
C15_AlwaysForwarded ==
    [][\A call \in HookCalls :
          HookCall(call, {"fwd"}) =>
              forwarded' = [i \in 1..Cardinality(LiveHooks) |-> NextHookArgs(call)]]_vars

\* A key-down of F12 whose processing raised in the predicate (the code is in
\* pressed_keys and nothing was activated) and that was forwarded.
C15_FaultingCallForwarded ==
    /\ hotkey_config = KeyOnlyConfig
    /\ pressed_keys = {VK_F12}
    /\ last_hotkey_time = 0
    /\ forwarded = << [nCode |-> 0, wParam |-> WM_KEYDOWN, lParam |-> VK_F12] >>

\* C16: an invocation in which processing raises leaves pressed_keys,
\* hotkey_active and last_hotkey_time as they were: the event is dropped.
C16_FaultDropsEvent ==
    [][\A call \in HookCalls :
          (Faults([pressed |-> pressed_keys], call) /\ HookCall(call, {"fwd"}))
              => /\ pressed_keys' = pressed_keys
                 /\ hotkey_active' = hotkey_active
                 /\ last_hotkey_time' = last_hotkey_time]_vars

\* C17: with alt false in the configuration, the signals of every key event
\* are those of the same timed sequence with the events of left and right
\* Alt removed: an Alt event emits nothing, and any other event emits what
\* it emits at its place in the sequence without the Alt events.
C17_DisabledAltIrrelevant ==
    (~hotkey_config.alt /\ history # <<>> /\ forwarded # <<>>) =>
        LET e == history[Len(history)]
            ref == ReplayOuts(hotkey_config, NewTracker,
                              SelectSeq(history, NotAltEvent))
        IN  emitted = IF IsAltEvent(e) THEN <<>> ELSE ref[Len(ref)]

\* C18: pressed_keys is the set of codes whose most recent event is a
\* key-down (so a key-up of a code that is not in the set changes nothing).
C18_NetPressedKeys == pressed_keys = NetDown(history)

\* A key-up of a code that never had a key-down, processed while another
\* key is held.
C18_KeyUpOfAbsentKey ==
    /\ Len(history) >= 2
    /\ pressed_keys # {}
    /\ LET e == history[Len(history)]
       IN  /\ e.dir = "up"
           /\ \A i \in 1..(Len(history) - 1) : history[i].vk # e.vk

\* C19: start() on a running listener returns True and creates no thread,
\* installs no hook and changes no field; stop() on a stopped listener
\* changes nothing.  A start() that returned True leaves is_running true and
\* a stop() that returned leaves it false, so a second call in a row is that
\* no-op and leaves the state of the first.
C19_LifecycleNoOps ==
    [][/\ (is_running /\ StartCall)
            => /\ start_ret' = "true"
               /\ mpc' = "idle"
               /\ UNCHANGED <<is_running, hook_id, tpc, nthreads, installed,
                              install_failed, listenerVars>>
       /\ (~is_running /\ StopCall)
            => UNCHANGED <<lifeVars, listenerVars>>
       /\ (mpc = "start_flag" /\ mpc' = "idle")
            => (start_ret' = "true" /\ is_running')
       /\ (mpc = "stop_unhook" /\ mpc' = "idle") => ~is_running']_vars

\* start() has returned from a call made on a running listener whose hook
\* thread is in its message loop.
C19_StartOnRunningReturned ==
    /\ last_call # <<>>
    /\ last_call[1].op = "start"
    /\ last_call[1].was_running
    /\ mpc = "idle"
    /\ start_ret = "true"
    /\ nthreads = 1
    /\ tpc[1] = "getmsg"

C21_PredicateIsConjunction ==
    /\ IsHotkeyPressed(hotkey_config, pressed_keys)
         = ( /\ \A m \in {"ctrl", "shift", "alt"} :
                   hotkey_config[m] => ModifierCodes[m] \cap pressed_keys # {}
             /\ \E c \in pressed_keys :
                   c # 0 /\ c = MainKeyCode(hotkey_config) )
    /\ hotkey_active =>
         ( /\ \A m \in {"ctrl", "shift", "alt"} :
                 hotkey_config[m] => ModifierCodes[m] \cap pressed_keys # {}
           /\ MainKeyCode(hotkey_config) \in pressed_keys )

\* The combination became active with only the right variants of the two
\* requested modifiers held, a modifier that is not requested being held too.
C21_RightVariantsSatisfy ==
    /\ hotkey_config = DefaultConfig
    /\ pressed_keys = {VK_RCONTROL, VK_RSHIFT, VK_LMENU, VK_F12}
    /\ hotkey_active
    /\ emitted = <<"Activated">>


\* C22: Activated is emitted only by a step that turns the combination
\* predicate from false to true; a key-down that finds the predicate
\* already true (an auto-repeat, an unrelated key) never emits Activated.
C22_ActivatedOnlyOnRisingEdge ==
    [][CountActivated(emitted') > 0
          => /\ ~IsHotkeyPressed(hotkey_config, pressed_keys)
             /\ IsHotkeyPressed(hotkey_config', pressed_keys')]_vars

\* C23: while the combination is active, a key-up that leaves the predicate
\* true (one of two held variants of a modifier released) emits no
\* Deactivated and leaves hotkey_active true.
C23_VariantReleaseKeepsActive ==
    [][\A vk \in Keys :
          ( /\ KeyUp(vk, {"c4"})
            /\ hotkey_active
            /\ IsHotkeyPressed(hotkey_config, pressed_keys)
            /\ IsHotkeyPressed(hotkey_config, pressed_keys \ {vk}) )
             => (emitted' = <<>> /\ hotkey_active')]_vars


\* C24: a key-down that makes the predicate true while hotkey_active is
\* false and less than the debounce interval has passed since
\* last_hotkey_time emits nothing and leaves hotkey_active and
\* last_hotkey_time as they were; pressed_keys gains the code, no more.
C24_SuppressionFrame ==
    [][\A vk \in ReplayKeys :
          ( /\ ReplayKeyDown(vk)
            /\ ~hotkey_active
            /\ IsHotkeyPressed(hotkey_config, pressed_keys \cup {vk})
            /\ now - last_hotkey_time < DebounceMs )
             => /\ emitted' = <<>>
                /\ ~hotkey_active'
                /\ last_hotkey_time' = last_hotkey_time
                /\ pressed_keys' = pressed_keys \cup {vk}]_vars

\* The main key pressed again 25 ms after an activation and its release:
\* the last event processed is that key-down, and it was suppressed.
C24_SuppressedKeyDown ==
    /\ Len(history) >= 3
    /\ history[Len(history)] = [dir |-> "down", vk |-> VK_F12, t |-> now]
    /\ IsHotkeyPressed(hotkey_config, pressed_keys)
    /\ ~hotkey_active
    /\ emitted = <<>>
    /\ last_hotkey_time >= StartTime
    /\ now > last_hotkey_time
    /\ now - last_hotkey_time < DebounceMs


\* C26: after start() on a stopped listener, with a successful installation
\* and no stop(), the hook thread never leaves its message loop whatever
\* the interleaving with the caller: its hook stays installed and the
\* thread never runs its finally clause to the end.
C26_StartReachesRunning ==
    \A t \in Threads :
        /\ tpc[t] # "done"
        /\ tpc[t] \in {"loop", "getmsg"} => t \in installed


\* C27: under a configuration that never changes, hotkey_active is true
\* only in states where _is_hotkey_pressed() holds for pressed_keys, and no
\* step turns the flag from true to false without emitting Deactivated (the
\* silent reset on an unmatched key-down only ever finds the flag false).
C27_ActiveImpliesPredicate ==
    /\ [](hotkey_active => IsHotkeyPressed(hotkey_config, pressed_keys))
    /\ [][(hotkey_active /\ ~hotkey_active')
             => (emitted' # <<>> /\ emitted'[Len(emitted')] = "Deactivated")]_vars

\* An unrelated key pressed while the combination is active: the key-down
\* finds the predicate true and leaves the flag alone.
C27_UnrelatedKeyWhileActive ==
    /\ hotkey_config = DefaultConfig
    /\ hotkey_active
    /\ c4on /\ c4acts = 1 /\ c4last = VK_LMENU
    /\ emitted = <<>>
    /\ pressed_keys = {VK_LCONTROL, VK_LSHIFT, VK_F12, VK_LMENU}


\* C25: whatever the key events and update_hotkey_config calls, in every
\* state where pressed_keys is empty hotkey_active is false and the last
\* signal emitted is not Activated.
C25_NoStuckActivation ==
    pressed_keys = {} => (~hotkey_active /\ lastEvent # "Activated")


\* C30: the three copies of the key resolution agree.  For the current
\* configuration and every native code c, _was_hotkey_key(c) is true exactly
\* when c is in _get_required_vk_codes(); and the code whose presence
\* _is_hotkey_pressed() tests for the main key is the main-key code in
\* _get_required_vk_codes().
C30_ResolutionsAgree ==
    /\ \A c \in VkCodes :
          WasHotkeyKey(hotkey_config, c) <=> c \in RequiredVkCodes(hotkey_config)
    /\ \A c \in VkCodes :
          IsHotkeyPressed(MainKeyOnly(hotkey_config), {c})
             <=> c \in RequiredVkCodes(MainKeyOnly(hotkey_config))

\* Ctrl+F12 written in upper case: the combination was activated through
\* _is_hotkey_pressed and the release of F12 recognised by _was_hotkey_key.
C30_UpperCaseNameResolved ==
    /\ hotkey_config = CtrlKeyConfig
    /\ emitted = <<"Deactivated">>
    /\ lastEvent = "Deactivated"
    /\ actTime = StartTime
    /\ pressed_keys = {VK_LCONTROL}


\* C28: every key event delivered through an installed hook is applied to
\* the listener constructed last, whichever listener installed the hook:
\* once a listener has been replaced its fields never change again, and a
\* key event changes the fields of the newest listener as _on_key_down /
\* _on_key_up prescribe.
C28_EventsGoToNewestListener ==
    [][/\ Len(retired') >= Len(retired)
       /\ \A i \in 1..Len(retired) : retired'[i] = retired[i]
       /\ \A vk \in AppKeys :
             (AppKeyDown(vk) /\ mpc # "ctor") =>
                 \E r \in {on_key_down([pressed |-> pressed_keys,
                                        active |-> hotkey_active,
                                        last |-> last_hotkey_time],
                                       hotkey_config, now, vk)} :
                     /\ pressed_keys' = r.pressed
                     /\ hotkey_active' = r.active
                     /\ last_hotkey_time' = r.last
       /\ \A vk \in AppKeys :
             (AppKeyUp(vk) /\ mpc # "ctor") =>
                 \E r \in {on_key_up([pressed |-> pressed_keys,
                                      active |-> hotkey_active,
                                      last |-> last_hotkey_time],
                                     hotkey_config, vk)} :
                     /\ pressed_keys' = r.pressed
                     /\ hotkey_active' = r.active
                     /\ last_hotkey_time' = r.last]_vars

\* The first listener was replaced while its combination (F12) was held:
\* its fields are frozen with the combination active, and a key-down
\* delivered through its hook has activated the second listener.
C28_FirstHookFeedsSecondListener ==
    /\ Len(retired) = 1
    /\ retired[1].hotkey_config = KeyOnlyConfig
    /\ retired[1].pressed_keys = {VK_F12}
    /\ retired[1].hotkey_active
    /\ installed = {retired[1].hook_id}
    /\ hotkey_config = LetterKeyConfig
    /\ hook_id = 0
    /\ pressed_keys = {OrdUpper["a"]}
    /\ hotkey_active
    /\ emitted = <<"Activated">>

\* init_modules has returned at least once after run().
Replaced == Len(retired) >= 1 /\ mpc = "idle"

====
